---- MODULE Spec2Model ----
(***************************************************************************)
(* Model of the Brayns morphology/circuit loader (MorphologyLoader.cpp)    *)
(* and of the bounce loop of the AdvancedSimulationRenderer shading        *)
(* kernel.                                                                 *)
(*                                                                         *)
(* Spec       : one call of a loader entry point (importCircuit,           *)
(*              importCircuit with report, importSimulationData,           *)
(*              importMorphology); the OpenMP parallel regions are modelled *)
(*              thread by thread, one action per step of a worker.         *)
(* SpecShade  : one call of AdvancedSimulationRenderer_shadeRay, one       *)
(*              action per iteration of the bounce loop.                   *)
(***************************************************************************)
EXTENDS Integers, Sequences, FiniteSets, Bags, TLC

\* ---------------------------------------------------------------- bounds
NbCells == 2            \* cells (GIDs) of the circuit
NbThreads == 2          \* OpenMP team size
NbUserMaterials == 5    \* NB_MAX_MATERIALS - NB_SYSTEM_MATERIALS
MaxFrames == 2          \* frames of the compartment report
NB_MAX_REBOUNDS == 2    \* from Consts.ih, used at the head of the bounce loop
Levels == 2             \* opacities are multiples of 1/Levels; Levels stands for 1.f
MaxSamples == 4         \* samples of a section
MaxDiameter == 2        \* sample diameters
MaxCompartments == 2    \* compartments of a section in the report
MaxVisits == 2          \* visits of one sample that are told apart
IterationWrap == 2      \* loop iterations are counted modulo this
MaxRate == 2            \* volume->samplingRate
MaxStep == 1            \* volume->samplingStep
MaxDistance == 2        \* length of the ray inside the bounding box of a volume
MaxOccluders == 2       \* geometries on a shadow ray
MaxVolumes == 2         \* renderer.model->volumeCount
NbKeys == 2             \* keys that are pressed or registered
MaxOperations == 4      \* calls made to a KeyboardHandler
MaxNesting == 2         \* calls of handleKeyboardShortcut in progress at once

Cells == 1..NbCells
Threads == 1..NbThreads
Materials == 0..(NbUserMaterials - 1)

VARIABLES
    \* GeometryParameters and the files on disk
    cfg,                \* _geometryParameters
    badCells,           \* cells whose morphology file raises std::runtime_error
    \* the call in progress
    op,                 \* "none", "circuit", "circuitReport", "simData", "morphology"
    input,              \* arguments / file contents read by the call
    result,             \* "running", "true", "false", "exception"
    \* importCircuit
    pass,               \* "none", "main", "join", "nonsim", "done"
    todo,               \* loop indices of the omp for not yet handed out
    pc, cur, priv, tmp, \* per worker thread: position, loop index, private_* buffers, registers
    lock,               \* owner of the unnamed omp critical (0 = free)
    morphologyOffsets, simulationOffset, simulatedCells,
    \* the scene and the cache file
    scene, cache,
    \* importMorphology, importSimulationData: locals of the call
    im, sd,
    \* history: what the workers generated
    generated, cellOffset, imported, failed,
    used,               \* per cell built: the cells whose data the loop body took
    \* AdvancedSimulationRenderer_shadeRay
    shadePc, depth, moreRebounds, pathOpacity, totalOpacity, color,
    attributes, rays, renderer, sample, ray,
    \* the build: BRAYNS_USE_BRION
    brion,
    \* one section of _importMorphology: the section and the locals of its loop
    section,
    \* getVolumeContribution / getVolumeShadowContribution: volume and locals
    march,
    \* shadedLightIntensity: occluders on the shadow ray and locals
    shadow,
    \* KeyboardHandler: _registeredShortcuts, the functor calls made, the
    \* operations applied so far, the last result of help()
    registeredShortcuts, invoked, operations, helpText,
    \* the calls of handleKeyboardShortcut whose functor is running
    handling

loaderVars == <<cfg, badCells, op, input, result, pass, todo, pc, cur, priv, tmp,
                lock, morphologyOffsets, simulationOffset, simulatedCells,
                scene, cache, im, sd, generated, cellOffset, imported, failed, used>>
shadeVars == <<shadePc, depth, moreRebounds, pathOpacity, totalOpacity, color,
               attributes, rays, renderer, sample, ray>>
keyboardVars == <<registeredShortcuts, invoked, operations, helpText, handling>>
notLoader == <<shadeVars, brion, section, march, shadow, keyboardVars>>
notShade == <<loaderVars, brion, section, march, shadow, keyboardVars>>
notKeyboard == <<loaderVars, shadeVars, brion, section, march, shadow>>
vars == <<loaderVars, shadeVars, brion, section, march, shadow, keyboardVars>>

\* ------------------------------------------------------------ containers
\* a map from material to a list of primitives; the lists are kept as bags of
\* primitives, their order being of no concern here
EmptyMap == [m \in Materials |-> EmptyBag]

EmptyScene == [spheres |-> EmptyMap, cylinders |-> EmptyMap, cones |-> EmptyMap,
               meshes |-> {}, bounds |-> {}, handler |-> FALSE]

EmptyPrivate == [spheres |-> EmptyMap, cylinders |-> EmptyMap, cones |-> EmptyMap,
                 bounds |-> {}]

EmptyTmp == [off |-> 0, cont |-> EmptyMap, meshes |-> {}, bounds |-> {}]

EmptyCache == [exists |-> FALSE, header |-> <<>>, frames |-> <<>>]

Range(s) == {s[k] : k \in 1..Len(s)}

\* k-th element (0-based) of a GID set, which iterates in increasing order
Nth(S, k) == CHOOSE x \in S : Cardinality({y \in S : y < x}) = k

\* index of x in the iteration order of S (std::distance(begin, find(x)))
IndexOf(S, x) == Cardinality({y \in S : y < x})

\* ------------------------------------------------- MorphologyLoader.cpp
SectionTypeId(sectionType) ==
    CASE sectionType = "soma" -> 1
      [] sectionType = "axon" -> 2
      [] sectionType = "dendrite" -> 3
      [] sectionType = "apicalDendrite" -> 4
      [] OTHER -> 0

getMaterialFromSectionType(morphologyIndex, forcedMaterial, sectionType, colorScheme) ==
    IF forcedMaterial # "NO_MATERIAL" THEN forcedMaterial
    ELSE CASE colorScheme = "neuron_by_id" -> morphologyIndex % NbUserMaterials
           [] colorScheme = "neuron_by_segment_type" ->
                  SectionTypeId(sectionType) % NbUserMaterials
           [] OTHER -> 0

\* getNeuronMatrix: neuron attributes are only read for the layer, m-type and
\* e-type colour schemes; for every other scheme it returns false.
getNeuronMatrix(colorScheme) ==
    colorScheme \in {"neuron_by_layer", "neuron_by_mtype", "neuron_by_etype"}

\* nbSkippedCells = uris.size() / (uris.size() * circuitDensity / 100), the
\* density being a float.  A zero divisor cannot occur for a non-empty circuit.
NbSkippedCells(n, density) ==
    IF n * density = 0 THEN 0 ELSE (100 * n) \div (n * density)

Skipped(i, nbSkippedCells) == nbSkippedCells # 0 /\ i % nbSkippedCells # 0

\* maxDistanceToSoma of the morphology of cell c
MaxDistanceToSoma(c) == c

\* The primitives _importMorphology emits for the morphology of cell c loaded
\* as morphology index i, in the order of emission.  A morphology is a soma
\* with one child section of two samples; the two sample radii are equal for
\* odd cells (cylinder) and differ for even cells (cone).
MorphologyPrims(p, i, c, forced) ==
    LET somaMat == getMaterialFromSectionType(i, forced, "soma", cfg.colorScheme)
        secMat == getMaterialFromSectionType(i, forced, "dendrite", cfg.colorScheme)
        soma == IF ~cfg.useMetaballs
                THEN <<[kind |-> "spheres", material |-> somaMat, id |-> <<p, i, c, "soma">>]>>
                ELSE <<>>
        somaCone == IF ~cfg.useMetaballs /\ cfg.useSimulationModel
                    THEN <<[kind |-> "cones", material |-> somaMat, id |-> <<p, i, c, "somaCone">>]>>
                    ELSE <<>>
        sphere == <<[kind |-> "spheres", material |-> secMat, id |-> <<p, i, c, "sample">>]>>
        segment == IF c % 2 = 1
                   THEN <<[kind |-> "cylinders", material |-> secMat, id |-> <<p, i, c, "segment">>]>>
                   ELSE <<[kind |-> "cones", material |-> secMat, id |-> <<p, i, c, "segment">>]>>
    IN  soma \o somaCone \o sphere \o segment

\* containers[kind][material].push_back(prim) for every emitted primitive
RECURSIVE AddPrims(_, _)
AddPrims(buf, prims) ==
    IF prims = <<>> THEN buf
    ELSE LET q == Head(prims)
         IN  AddPrims([buf EXCEPT ![q.kind][q.material] = @ (+) SetToBag({q.id})], Tail(prims))

\* scene.getX()[material].insert(end, private_X[material].begin(), .end())
\* for every material of the private map
MergeInto(shared, private) == [m \in Materials |-> shared[m] (+) private[m]]

\* the critical construct left out: a thread never waits
CriticalFreeAlways == TRUE

\* an unnamed "omp critical" can be entered when no thread is inside one
CriticalFree == lock = 0

\* the check for an empty GID set left out
GidsNeverEmpty(gids) == FALSE

\* if (gids.empty()) return false;
GidsEmpty(gids) == gids = {}

\* std::map<size_t, float>::operator[] assignment
MapPut(f, k, v) == [x \in (DOMAIN f) \cup {k} |-> IF x = k THEN v ELSE f[x]]

EmptyOffsets == [x \in {} |-> 0]

\* cr_uris: for every GID of the report, the URI at its index in the target
CrUris(gids, crGids) ==
    [i \in 0..(Cardinality(crGids) - 1) |-> Nth(gids, IndexOf(gids, Nth(crGids, i)))]

\* the meshes MeshLoader::importMeshFromFile adds for loop index i, cell c
MeshOf(p, i, c) == <<p, i, c, "mesh">>

\* the sequential mesh loop that precedes the parallel region when a meshed
\* morphologies folder is set
SequentialMeshes(gids, nbSkippedCells) ==
    {MeshOf("sequential", i, Nth(gids, i)) :
        i \in {j \in 0..(Cardinality(gids) - 1) : ~Skipped(j, nbSkippedCells)}}

SequentialBounds(gids, nbSkippedCells) ==
    {Nth(gids, i) : i \in {j \in 0..(Cardinality(gids) - 1) : ~Skipped(j, nbSkippedCells)}}

\* bool loadParametricGeometry
LoadParametricGeometry ==
    IF cfg.meshedMorphologiesFolder THEN cfg.useSimulationModel ELSE TRUE

\* the targets a call can select: the first k cells of the circuit
Targets == {1..k : k \in 0..NbCells}

\* the state a call is started from
Idle ==
    /\ op = "none"
    /\ result = "none"

\* the cell whose morphology loop index i loads in the current pass
UriOf(i) ==
    CASE pass = "nonsim" -> Nth(Cells, i)
      [] op = "circuitReport" -> CrUris(input.gids, input.crGids)[i]
      [] OTHER -> Nth(input.gids, i)

\* The loop bodies index several vectors with the loop index i.  Each vector
\* holds one entry per cell of some GID set, in increasing GID order; what
\* follows names the cell whose entry the index i selects.  NoCell stands for
\* data that is not taken, OutsideCell for an index past the end of the vector.
NoCell == 0
OutsideCell == -1

\* vector[i] of a vector that holds one entry per cell of gids
EntryOf(gids, i) == IF i < Cardinality(gids) THEN Nth(gids, i) ELSE OutsideCell

\* the transform passed for loop index i: transforms[i] (of the target) in
\* both main loops and for the meshes of the non-simulated cells,
\* allTransforms[i] for the morphologies of the non-simulated cells
TransformOf(i, mesh) ==
    IF pass = "nonsim" /\ ~mesh THEN EntryOf(Cells, i) ELSE EntryOf(input.gids, i)

\* mvd3Support ? boost::lexical_cast<size_t>(neuronMatrix[i]) : NO_MATERIAL,
\* neuronMatrix holding the attributes of the cells of the target
AttributeOf(i) ==
    IF getNeuronMatrix(cfg.colorScheme) THEN EntryOf(input.gids, i) ELSE NoCell

\* simulationInformation = { &compartmentCounts[i], &compartmentOffsets[i] },
\* both vectors holding the cells of the report; 0 for non-simulated cells
\* and without a report
CompartmentsOf(i) ==
    IF op = "circuitReport" /\ pass = "main" THEN EntryOf(input.crGids, i) ELSE NoCell

\* what the body of loop index i passes on
DataUsed(i, mesh) ==
    [pass |-> pass, i |-> i, mesh |-> mesh, uri |-> UriOf(i),
     transform |-> TransformOf(i, mesh), attribute |-> AttributeOf(i),
     compartments |-> CompartmentsOf(i)]

\* entering "#pragma omp parallel": fresh private buffers, the iterations of
\* the omp for are handed out to the team
EnterParallel(n) ==
    /\ todo' = 0..(n - 1)
    /\ pc' = [t \in Threads |-> "loop"]
    /\ cur' = [t \in Threads |-> 0]
    /\ priv' = [t \in Threads |-> EmptyPrivate]
    /\ tmp' = [t \in Threads |-> EmptyTmp]
    /\ lock' = 0

\* the part of both importCircuit overloads between the GID check and the
\* first parallel region
CircuitProlog(gids, n) ==
    LET nb == NbSkippedCells(Cardinality(gids), cfg.circuitDensity)
    IN  /\ scene' = IF cfg.meshedMorphologiesFolder
                    THEN [scene EXCEPT !.meshes = @ \cup SequentialMeshes(gids, nb),
                                       !.bounds = @ \cup SequentialBounds(gids, nb)]
                    ELSE scene
        /\ IF LoadParametricGeometry
           THEN /\ pass' = "main"
                /\ EnterParallel(n)
           ELSE /\ pass' = "join"
                /\ UNCHANGED <<todo, pc, cur, priv, tmp, lock>>

\* MorphologyLoader::importCircuit(circuitConfig, target, scene, meshLoader)
ImportCircuit ==
    /\ Idle
    /\ \E fileOK \in BOOLEAN, gids \in Targets :
        /\ op' = "circuit"
        /\ input' = [fileOK |-> fileOK, reportOK |-> TRUE, gids |-> gids, crGids |-> {},
                     nbSkippedCells |-> NbSkippedCells(Cardinality(gids), cfg.circuitDensity),
                     nonSimulatedCells |-> 0]
        /\ IF ~fileOK
           THEN /\ result' = "exception"
                /\ UNCHANGED <<pass, todo, pc, cur, priv, tmp, lock, scene,
                               morphologyOffsets, simulationOffset, simulatedCells>>
           ELSE IF GidsEmpty(gids)
           THEN /\ result' = "false"
                /\ UNCHANGED <<pass, todo, pc, cur, priv, tmp, lock, scene,
                               morphologyOffsets, simulationOffset, simulatedCells>>
           ELSE /\ result' = "running"
                /\ morphologyOffsets' = EmptyOffsets
                /\ simulationOffset' = 1
                /\ simulatedCells' = 0
                /\ CircuitProlog(gids, Cardinality(gids))
    /\ UNCHANGED <<cfg, badCells, cache, im, sd, generated, cellOffset, imported, failed, used>>
    /\ UNCHANGED notLoader

\* MorphologyLoader::importCircuit(circuitConfig, target, report, scene, meshLoader)
ImportCircuitReport ==
    /\ Idle
    /\ \E fileOK \in BOOLEAN, reportOK \in BOOLEAN, gids \in Targets :
       \E crGids \in SUBSET gids :
        /\ op' = "circuitReport"
        /\ input' = [fileOK |-> fileOK, reportOK |-> reportOK, gids |-> gids,
                     crGids |-> crGids,
                     nbSkippedCells |-> NbSkippedCells(Cardinality(gids), cfg.circuitDensity),
                     nonSimulatedCells |-> cfg.nonSimulatedCells]
        /\ IF ~fileOK
           THEN /\ result' = "exception"
                /\ UNCHANGED <<pass, todo, pc, cur, priv, tmp, lock, scene>>
           ELSE IF GidsEmpty(gids)
           THEN /\ result' = "false"
                /\ UNCHANGED <<pass, todo, pc, cur, priv, tmp, lock, scene>>
           ELSE IF ~reportOK
           THEN /\ result' = "exception"
                /\ UNCHANGED <<pass, todo, pc, cur, priv, tmp, lock, scene>>
           ELSE /\ result' = "running"
                /\ CircuitProlog(gids, Cardinality(crGids))
    /\ UNCHANGED <<cfg, badCells, cache, im, sd, generated, cellOffset, imported, failed, used,
                   morphologyOffsets, simulationOffset, simulatedCells>>
    /\ UNCHANGED notLoader

\* the variables no worker thread touches
fixedVars == <<cfg, badCells, op, input, result, pass, cache, im, sd, simulatedCells>>
history == <<generated, cellOffset, imported, failed, used>>

InParallel == result = "running" /\ pass \in {"main", "nonsim"}

\* first statement of the loop body after the density check
BodyStart ==
    IF pass = "nonsim"
    THEN IF cfg.meshedMorphologiesFolder THEN "mesh" ELSE "morph"
    ELSE IF cfg.useMetaballs THEN "meta" ELSE "morph"

\* _importMorphology(uri, i, transform, simulationInformation, private_spheres,
\*     private_cylinders, private_cones, private_bounds, simulationOffset, ...)
\* run by thread t for loop index i.  An unreadable morphology raises
\* std::runtime_error in the Morphology constructor, which is caught: nothing
\* is written and false is returned.  Only importCircuit without a report
\* looks at the returned value, to advance the simulation offset.
ImportMorphologyCall(t, i) ==
    LET c == UriOf(i)
        ok == c \notin badCells
        prims == MorphologyPrims(pass, i, c, "NO_MATERIAL")
    IN  /\ priv' = IF ok
                   THEN [priv EXCEPT ![t] = [AddPrims(@, prims) EXCEPT !.bounds = @ \cup {c}]]
                   ELSE priv
        /\ generated' = IF ok THEN generated \cup Range(prims) ELSE generated
        /\ imported' = IF ok THEN imported \cup {<<pass, i>>} ELSE imported
        /\ used' = IF ok THEN used \cup {DataUsed(i, FALSE)} ELSE used
        /\ failed' = IF ok THEN failed ELSE failed \cup {<<pass, i>>}
        /\ cellOffset' = IF ok /\ op = "circuit"
                         THEN MapPut(cellOffset, i, simulationOffset)
                         ELSE cellOffset
        /\ IF ok /\ op = "circuit"
           THEN /\ pc' = [pc EXCEPT ![t] = "off"]
                /\ cur' = [cur EXCEPT ![t] = i]
           ELSE /\ pc' = [pc EXCEPT ![t] = "loop"]
                /\ cur' = [cur EXCEPT ![t] = 0]

\* "#pragma omp for nowait": a thread is handed an iteration whose cell the
\* circuit density drops; only the progress counter advances
IterationSkipped(t) ==
    /\ InParallel
    /\ pc[t] = "loop"
    /\ \E i \in todo :
        /\ Skipped(i, input.nbSkippedCells)
        /\ todo' = todo \ {i}
    /\ UNCHANGED <<fixedVars, history, pc, cur, priv, tmp, lock, scene,
                   morphologyOffsets, simulationOffset>>
    /\ UNCHANGED notLoader

\* a thread is handed an iteration and, metaballs being enabled, calls
\* _importMorphologyAsMesh(uri, i, scene.getMaterials(), transforms[i],
\*     scene.getTriangleMeshes(), scene.getWorldBounds(), material):
\* it starts updating the scene's triangle meshes and world bounds.  An
\* unreadable morphology is caught inside at once, and _importMorphology then
\* fails on the same file.
IterationMetaballs(t) ==
    /\ InParallel
    /\ pc[t] = "loop"
    /\ BodyStart = "meta"
    /\ \E i \in todo :
        /\ ~Skipped(i, input.nbSkippedCells)
        /\ todo' = todo \ {i}
        /\ IF UriOf(i) \in badCells
           THEN /\ ImportMorphologyCall(t, i)
                /\ tmp' = tmp
           ELSE /\ pc' = [pc EXCEPT ![t] = "metaW"]
                /\ cur' = [cur EXCEPT ![t] = i]
                /\ tmp' = [tmp EXCEPT ![t].meshes = scene.meshes, ![t].bounds = scene.bounds]
                /\ UNCHANGED <<history, priv>>
    /\ UNCHANGED <<fixedVars, lock, scene, morphologyOffsets, simulationOffset>>
    /\ UNCHANGED notLoader

\* _importMorphologyAsMesh has written the scene and returns; _importMorphology
\* follows on the thread's private buffers
MetaballsEnd(t) ==
    /\ InParallel
    /\ pc[t] = "metaW"
    /\ scene' = [scene EXCEPT
                   !.meshes = tmp[t].meshes \cup {<<pass, cur[t], UriOf(cur[t]), "metaballs">>},
                   !.bounds = tmp[t].bounds \cup {UriOf(cur[t])}]
    /\ tmp' = [tmp EXCEPT ![t] = EmptyTmp]
    /\ ImportMorphologyCall(t, cur[t])
    /\ UNCHANGED <<fixedVars, todo, lock, morphologyOffsets, simulationOffset>>
    /\ UNCHANGED notLoader

\* a thread is handed an iteration of the non-simulated cells and, a meshed
\* morphologies folder being set, calls
\* meshLoader.importMeshFromFile(meshFilename, scene, ...)
IterationMesh(t) ==
    /\ InParallel
    /\ pc[t] = "loop"
    /\ BodyStart = "mesh"
    /\ \E i \in todo :
        /\ ~Skipped(i, input.nbSkippedCells)
        /\ todo' = todo \ {i}
        /\ cur' = [cur EXCEPT ![t] = i]
    /\ pc' = [pc EXCEPT ![t] = "meshW"]
    /\ tmp' = [tmp EXCEPT ![t].meshes = scene.meshes, ![t].bounds = scene.bounds]
    /\ UNCHANGED <<fixedVars, history, priv, lock, scene,
                   morphologyOffsets, simulationOffset>>
    /\ UNCHANGED notLoader

MeshEnd(t) ==
    /\ InParallel
    /\ pc[t] = "meshW"
    /\ scene' = [scene EXCEPT
                   !.meshes = tmp[t].meshes \cup {MeshOf(pass, cur[t], UriOf(cur[t]))},
                   !.bounds = tmp[t].bounds \cup {UriOf(cur[t])}]
    /\ used' = used \cup {DataUsed(cur[t], TRUE)}
    /\ pc' = [pc EXCEPT ![t] = "loop"]
    /\ cur' = [cur EXCEPT ![t] = 0]
    /\ tmp' = [tmp EXCEPT ![t] = EmptyTmp]
    /\ UNCHANGED <<fixedVars, generated, cellOffset, imported, failed, todo, priv, lock,
                   morphologyOffsets, simulationOffset>>
    /\ UNCHANGED notLoader

\* a thread is handed an iteration and calls _importMorphology
IterationMorphology(t) ==
    /\ InParallel
    /\ pc[t] = "loop"
    /\ BodyStart = "morph"
    /\ \E i \in todo :
        /\ ~Skipped(i, input.nbSkippedCells)
        /\ todo' = todo \ {i}
        /\ ImportMorphologyCall(t, i)
    /\ UNCHANGED <<fixedVars, tmp, lock, scene, morphologyOffsets, simulationOffset>>
    /\ UNCHANGED notLoader

\* morphologyOffsets[simulatedCells] = maxDistanceToSoma;
\* simulationOffset += maxDistanceToSoma;   (load of the shared counter)
OffsetRead(t) ==
    /\ InParallel
    /\ pc[t] = "off"
    /\ morphologyOffsets' = MapPut(morphologyOffsets, simulatedCells,
                                   MaxDistanceToSoma(UriOf(cur[t])))
    /\ tmp' = [tmp EXCEPT ![t].off = simulationOffset]
    /\ pc' = [pc EXCEPT ![t] = "offW"]
    /\ UNCHANGED <<fixedVars, history, todo, cur, priv, lock, scene, simulationOffset>>
    /\ UNCHANGED notLoader

\* simulationOffset += maxDistanceToSoma;   (store of the sum)
OffsetWrite(t) ==
    /\ InParallel
    /\ pc[t] = "offW"
    /\ simulationOffset' = tmp[t].off + MaxDistanceToSoma(UriOf(cur[t]))
    /\ tmp' = [tmp EXCEPT ![t] = EmptyTmp]
    /\ pc' = [pc EXCEPT ![t] = "loop"]
    /\ cur' = [cur EXCEPT ![t] = 0]
    /\ UNCHANGED <<fixedVars, history, todo, priv, lock, scene, morphologyOffsets>>
    /\ UNCHANGED notLoader

\* the position of a thread that waits at one of the three critical loops:
\* nowait lets a thread that finds no iteration left go on to the first one
AtCritical(t) ==
    \/ pc[t] = "loop" /\ todo = {}
    \/ pc[t] \in {"critY", "critO"}

CriticalKind(p) ==
    CASE p \in {"loop", "inS"} -> "spheres"
      [] p \in {"critY", "inY"} -> "cylinders"
      [] p \in {"critO", "inO"} -> "cones"

CriticalInside(p) ==
    CASE p = "loop" -> "inS" [] p = "critY" -> "inY" [] p = "critO" -> "inO"

CriticalNext(p) ==
    CASE p = "inS" -> "critY" [] p = "inY" -> "critO" [] p = "inO" -> "bnd"

\* "#pragma omp critical" for (p : private_X) ...: entry, the inserts start
EnterCritical(t) ==
    /\ InParallel
    /\ AtCritical(t)
    /\ CriticalFree
    /\ lock' = t
    /\ tmp' = [tmp EXCEPT ![t].cont = scene[CriticalKind(pc[t])]]
    /\ pc' = [pc EXCEPT ![t] = CriticalInside(@)]
    /\ UNCHANGED <<fixedVars, history, todo, cur, priv, scene,
                   morphologyOffsets, simulationOffset>>
    /\ UNCHANGED notLoader

\* the inserts are done, the critical section is left
LeaveCritical(t) ==
    /\ InParallel
    /\ pc[t] \in {"inS", "inY", "inO"}
    /\ scene' = [scene EXCEPT ![CriticalKind(pc[t])] =
                     MergeInto(tmp[t].cont, priv[t][CriticalKind(pc[t])])]
    /\ lock' = 0
    /\ tmp' = [tmp EXCEPT ![t] = EmptyTmp]
    /\ pc' = [pc EXCEPT ![t] = CriticalNext(@)]
    /\ UNCHANGED <<fixedVars, history, todo, cur, priv,
                   morphologyOffsets, simulationOffset>>
    /\ UNCHANGED notLoader

\* scene.getWorldBounds().merge(private_bounds): the statement follows the
\* last critical loop and is not part of it
BoundsRead(t) ==
    /\ InParallel
    /\ pc[t] = "bnd"
    /\ tmp' = [tmp EXCEPT ![t].bounds = scene.bounds]
    /\ pc' = [pc EXCEPT ![t] = "bndW"]
    /\ UNCHANGED <<fixedVars, history, todo, cur, priv, lock, scene,
                   morphologyOffsets, simulationOffset>>
    /\ UNCHANGED notLoader

BoundsWrite(t) ==
    /\ InParallel
    /\ pc[t] = "bndW"
    /\ scene' = [scene EXCEPT !.bounds = tmp[t].bounds \cup priv[t].bounds]
    /\ tmp' = [tmp EXCEPT ![t] = EmptyTmp]
    /\ pc' = [pc EXCEPT ![t] = "end"]
    /\ UNCHANGED <<fixedVars, history, todo, cur, priv, lock,
                   morphologyOffsets, simulationOffset>>
    /\ UNCHANGED notLoader

\* implicit barrier at the end of "#pragma omp parallel"
Barrier ==
    /\ InParallel
    /\ \A t \in Threads : pc[t] = "end"
    /\ pc' = [t \in Threads |-> "idle"]
    /\ pass' = IF pass = "main" THEN "join" ELSE "done"
    /\ result' = IF pass = "main" THEN result ELSE "true"
    /\ UNCHANGED <<cfg, badCells, op, input, cache, im, sd, simulatedCells, history,
                   todo, cur, priv, tmp, lock, scene, morphologyOffsets, simulationOffset>>
    /\ UNCHANGED notLoader

\* the cells of the circuit that are not in the report (the second cr_uris)
NonSimulatedUris(crGids) == {gid \in Cells : gid \notin crGids}

Min(a, b) == IF a < b THEN a ELSE b

\* after the first parallel region: importCircuit without report returns true;
\* with a report the non-simulated cells follow when nonSimulatedCells != 0
AfterMain ==
    /\ result = "running"
    /\ pass = "join"
    /\ IF op = "circuitReport" /\ input.nonSimulatedCells # 0
       THEN LET n == Min(input.nonSimulatedCells,
                         Cardinality(NonSimulatedUris(input.crGids)))
            IN  /\ input' = [input EXCEPT !.nonSimulatedCells = n]
                /\ pass' = "nonsim"
                /\ EnterParallel(n)
                /\ result' = result
       ELSE /\ pass' = "done"
            /\ result' = "true"
            /\ UNCHANGED <<input, todo, pc, cur, priv, tmp, lock>>
    /\ UNCHANGED <<cfg, badCells, op, cache, im, sd, simulatedCells, history, scene,
                   morphologyOffsets, simulationOffset>>
    /\ UNCHANGED notLoader

\* ---------------------------------------------------- importSimulationData
circuitVars == <<pass, todo, pc, cur, priv, tmp, lock,
                 morphologyOffsets, simulationOffset, simulatedCells>>

NoInput == [fileOK |-> TRUE, reportOK |-> TRUE, gids |-> {}, crGids |-> {},
            nbSkippedCells |-> 0, nonSimulatedCells |-> 0]

NoSim == [pc |-> "none", nbFrames |-> 0, frame |-> 0, firstFrame |-> 0, step |-> 0,
          handlerNbFrames |-> 0, handlerFrameSize |-> 0]

\* a cache file written by an earlier run, to which the handler can attach
OldCache == [exists |-> TRUE, header |-> << <<0, 1>> >>, frames |-> <<>>]

\* const uint64_t nbFrames = (lastFrame - firstFrame) / step;
NbFrames(firstFrame, lastFrame, step) == (lastFrame - firstFrame) \div step

\* MorphologyLoader::importSimulationData up to the creation of the cache file
ImportSimulationData ==
    /\ Idle
    /\ \E fileOK \in BOOLEAN, reportOK \in BOOLEAN, gids \in Targets,
          canCreate \in BOOLEAN, firstFrame \in {0, 1}, step \in {1, 2} :
       \E lastFrame \in firstFrame..(firstFrame + MaxFrames * step) :
        /\ op' = "simData"
        /\ input' = [NoInput EXCEPT !.fileOK = fileOK, !.reportOK = reportOK,
                                    !.gids = gids, !.crGids = gids]
        /\ IF ~fileOK
           THEN /\ result' = "exception"
                /\ UNCHANGED <<scene, cache, sd>>
           ELSE IF GidsEmpty(gids)
           THEN /\ result' = "false"
                /\ UNCHANGED <<scene, cache, sd>>
           ELSE IF ~reportOK
           THEN /\ result' = "exception"
                /\ UNCHANGED <<scene, cache, sd>>
           ELSE /\ scene' = [scene EXCEPT !.handler = TRUE]
                /\ IF cache.exists
                   THEN /\ result' = "true"
                        /\ UNCHANGED <<cache, sd>>
                   ELSE IF ~canCreate
                   THEN /\ result' = "false"
                        /\ UNCHANGED <<cache, sd>>
                   ELSE /\ result' = "running"
                        /\ cache' = [exists |-> TRUE, header |-> <<>>, frames |-> <<>>]
                        /\ sd' = [NoSim EXCEPT !.pc = "header", !.firstFrame = firstFrame,
                                               !.step = step,
                                               !.nbFrames = NbFrames(firstFrame, lastFrame, step)]
    /\ UNCHANGED <<cfg, badCells, im, history>>
    /\ UNCHANGED circuitVars
    /\ UNCHANGED notLoader

\* setNbFrames, setFrameSize, writeHeader(file)
SimulationWriteHeader ==
    /\ op = "simData"
    /\ result = "running"
    /\ sd.pc = "header"
    /\ sd' = [sd EXCEPT !.pc = "frames", !.frame = 0,
                        !.handlerNbFrames = sd.nbFrames,
                        !.handlerFrameSize = Cardinality(input.gids)]
    /\ cache' = [cache EXCEPT !.header =
                    Append(@, <<sd'.handlerNbFrames, sd'.handlerFrameSize>>)]
    /\ UNCHANGED <<cfg, badCells, op, input, result, im, history, scene>>
    /\ UNCHANGED circuitVars
    /\ UNCHANGED notLoader

\* the frame time without the frame index
FrameTimeOfSecond(firstFrame, step, frame) == firstFrame + step

\* const float frameTime = firstFrame + step * frame;
FrameTime(firstFrame, step, frame) == firstFrame + step * frame

\* one iteration of the body loop: loadFrame(frameTime), writeFrame
SimulationWriteFrame ==
    /\ op = "simData"
    /\ result = "running"
    /\ sd.pc = "frames"
    /\ sd.frame < sd.nbFrames
    /\ cache' = [cache EXCEPT !.frames =
                    Append(@, FrameTime(sd.firstFrame, sd.step, sd.frame))]
    /\ sd' = [sd EXCEPT !.frame = @ + 1]
    /\ UNCHANGED <<cfg, badCells, op, input, result, im, history, scene>>
    /\ UNCHANGED circuitVars
    /\ UNCHANGED notLoader

\* file.close(); return true;
SimulationReturn ==
    /\ op = "simData"
    /\ result = "running"
    /\ sd.pc = "frames"
    /\ ~(sd.frame < sd.nbFrames)
    /\ sd' = [sd EXCEPT !.pc = "closed"]
    /\ result' = "true"
    /\ UNCHANGED <<cfg, badCells, op, input, im, history, scene, cache>>
    /\ UNCHANGED circuitVars
    /\ UNCHANGED notLoader

\* -------------------------------------------------------- importMorphology
NoMorphology == [pc |-> "none", uri |-> 0, index |-> 0, meshOK |-> TRUE,
                 returnValue |-> TRUE, attempted |-> {}, failedSteps |-> {}]

\* returnValue & _importMorphology(...): the call is always made
CallsParametricAlways(returnValue) == TRUE

\* returnValue && _importMorphology(...): the call is made only when the
\* left operand is true
CallsParametric(returnValue) == returnValue

\* MorphologyLoader::importMorphology(uri, morphologyIndex, scene): entry and
\* the optional metaballs mesh.  _importMorphologyAsMesh merges the sample
\* positions into the world bounds before it generates the mesh, and turns a
\* std::runtime_error of either step into false.
ImportMorphology ==
    /\ Idle
    /\ \E c \in Cells, index \in {0, 1}, meshOK \in BOOLEAN :
        LET ok == c \notin badCells /\ meshOK
        IN  /\ op' = "morphology"
            /\ result' = "running"
            /\ IF cfg.useMetaballs
               THEN /\ im' = [NoMorphology EXCEPT
                                !.pc = "parametric", !.uri = c, !.index = index,
                                !.meshOK = meshOK, !.returnValue = ok,
                                !.attempted = {"mesh"},
                                !.failedSteps = IF ok THEN {} ELSE {"mesh"}]
                    /\ scene' = [scene EXCEPT
                                   !.bounds = IF c \in badCells THEN @ ELSE @ \cup {c},
                                   !.meshes = IF ok THEN @ \cup {<<"morphology", index, c, "metaballs">>}
                                              ELSE @]
               ELSE /\ im' = [NoMorphology EXCEPT !.pc = "parametric", !.uri = c,
                                                  !.index = index, !.meshOK = meshOK]
                    /\ scene' = scene
    /\ UNCHANGED <<cfg, badCells, input, cache, sd, history>>
    /\ UNCHANGED circuitVars
    /\ UNCHANGED notLoader

\* returnValue = returnValue && _importMorphology(uri, morphologyIndex, ...,
\*     scene.getSpheres(), scene.getCylinders(), scene.getCones(),
\*     scene.getWorldBounds(), 0, maxDistanceToSoma);  return returnValue;
ImportMorphologyReturn ==
    /\ op = "morphology"
    /\ result = "running"
    /\ im.pc = "parametric"
    /\ LET c == im.uri
           called == CallsParametric(im.returnValue)
           ok == c \notin badCells
           prims == MorphologyPrims("morphology", im.index, c, "NO_MATERIAL")
           rv == im.returnValue /\ (called => ok)
       IN  /\ scene' = IF called /\ ok
                       THEN [AddPrims(scene, prims) EXCEPT !.bounds = @ \cup {c}]
                       ELSE scene
           /\ im' = [im EXCEPT !.pc = "returned", !.returnValue = rv,
                               !.attempted = IF called THEN @ \cup {"parametric"} ELSE @,
                               !.failedSteps = IF called /\ ~ok THEN @ \cup {"parametric"} ELSE @]
           /\ result' = IF rv THEN "true" ELSE "false"
    /\ UNCHANGED <<cfg, badCells, op, input, cache, sd, history>>
    /\ UNCHANGED circuitVars
    /\ UNCHANGED notLoader

\* ------------------------------ _importMorphology: the samples of a section
\* One section of the "Dendrites and axon" loop.  A sample is a position p and
\* a diameter w; radii are taken with 0.5 * radiusMultiplier = 1.  Sample k
\* (0-based) of the section is samples[k + 1]; its distance to the soma grows
\* with k.  Offsets are kept multiplied by the number of samples, so that the
\* quotient counts[sectionId] / float(samples.size()) stays exact.
Qualities == {"low", "medium", "high"}

SampleValues == [p : 0..1, w : 0..MaxDiameter]

RECURSIVE SeqsUpTo(_, _)
SeqsUpTo(S, n) ==
    IF n = 0 THEN {<<>>}
    ELSE LET shorter == SeqsUpTo(S, n - 1)
         IN  shorter \cup {Append(q, x) : q \in {r \in shorter : Len(r) = n - 1}, x \in S}

NoSection ==
    [pc |-> "none", samples |-> <<>>, quality |-> "high", simulationInformation |-> FALSE,
     count |-> 0, compartmentOffset |-> 0, simulationOffset |-> 0, radiusCorrection |-> 0,
     distanceToSoma |-> 0, step |-> 0, segmentStep |-> 0, i |-> 0, done |-> FALSE,
     previousSample |-> 0, offset |-> 0, maxDistanceToSoma |-> 0,
     emitted |-> {}, bounds |-> {}, visits |-> <<>>, accessed |-> {}, iterations |-> 0]

\* size_t step, by the geometry quality
StepOf(quality, size) ==
    CASE quality = "low" -> size - 1
      [] quality = "medium" -> IF size \div 2 = 0 THEN 1 ELSE size \div 2
      [] OTHER -> 1

\* if (samples.empty() && counts[sectionId] > 1)
SegmentStepCondition(size, count) == size = 0 /\ count > 1

\* float segmentStep, times samples.size()
SegmentStep(simulationInformation, size, count) ==
    IF simulationInformation /\ SegmentStepCondition(size, count) THEN count ELSE 0

\* radiusCorrection != 0.f ? radiusCorrection : w * 0.5f * radiusMultiplier
RadiusOf(radiusCorrection, w) == IF radiusCorrection # 0 THEN radiusCorrection ELSE w

\* for (size_t i = step; !done && i < samples.size() + step; i += step)
SampleLoopCondition ==
    ~section.done /\ section.i < Len(section.samples) + section.step

\* lines 325-354: the section is skipped when it has no samples; otherwise
\* previousSample, step and segmentStep are set and the loop is entered
SectionBegin ==
    /\ section.pc = "begin"
    /\ LET size == Len(section.samples)
       IN  IF size = 0
           THEN section' = [section EXCEPT !.pc = "done"]
           ELSE section' = [section EXCEPT
                    !.pc = "loop",
                    !.previousSample = 0,
                    !.accessed = {0},
                    !.step = StepOf(section.quality, size),
                    !.segmentStep = SegmentStep(section.simulationInformation, size,
                                                section.count),
                    !.i = StepOf(section.quality, size),
                    !.done = FALSE]
    /\ UNCHANGED <<loaderVars, shadeVars, brion, march, shadow, keyboardVars>>

\* lines 359-412: one iteration of the sample loop.  samples[i - step] is only
\* read when no radius correction is set; an index outside the vector reads a
\* value that is not a sample of the section.
SectionIteration ==
    /\ section.pc = "loop"
    /\ SampleLoopCondition
    /\ LET size == Len(section.samples)
           clamped == section.i >= size
           i == IF clamped THEN size - 1 ELSE section.i
           distance == section.distanceToSoma + i
           offset == IF section.simulationInformation
                     THEN section.compartmentOffset * size + i * section.segmentStep
                     ELSE IF section.simulationOffset # 0
                     THEN (section.simulationOffset + distance) * size
                     ELSE section.offset
           before == i - section.step
           inside == before \in 0..(size - 1)
           current == section.samples[i + 1]
           target == section.samples[section.previousSample + 1]
           radius == RadiusOf(section.radiusCorrection, current.w)
       IN  \E outside \in 0..MaxDiameter :
           LET previousRadius ==
                   IF section.radiusCorrection # 0 THEN section.radiusCorrection
                   ELSE IF inside THEN section.samples[before + 1].w
                   ELSE outside
               prim(kind) == [kind |-> kind, i |-> i, previous |-> section.previousSample,
                              before |-> before, radius |-> radius,
                              previousRadius |-> previousRadius, distance |-> distance,
                              offset |-> offset]
               sphere == IF radius > 0 THEN {prim("spheres")} ELSE {}
               connected == current.p # target.p /\ radius > 0 /\ previousRadius > 0
               segment == IF ~connected THEN {}
                          ELSE IF radius = previousRadius THEN {prim("cylinders")}
                          ELSE {prim("cones")}
           IN  /\ (inside \/ section.radiusCorrection # 0) => outside = 0
               /\ section' = [section EXCEPT
                    !.done = clamped,
                    !.i = i + section.step,
                    !.offset = offset,
                    !.maxDistanceToSoma = IF distance > @ THEN distance ELSE @,
                    !.emitted = @ \cup sphere \cup segment,
                    !.bounds = @ \cup {i} \cup (IF connected THEN {section.previousSample} ELSE {}),
                    !.accessed = @ \cup {i}
                                   \cup (IF section.radiusCorrection # 0 THEN {} ELSE {before}),
                    !.visits = [@ EXCEPT ![i + 1] = IF @ < MaxVisits THEN @ + 1 ELSE @],
                    !.iterations = (@ + 1) % IterationWrap,
                    !.previousSample = i]
    /\ UNCHANGED <<loaderVars, shadeVars, brion, march, shadow, keyboardVars>>

\* the loop is left; ++sectionId
SectionEnd ==
    /\ section.pc = "loop"
    /\ ~SampleLoopCondition
    /\ section' = [section EXCEPT !.pc = "done"]
    /\ UNCHANGED <<loaderVars, shadeVars, brion, march, shadow, keyboardVars>>

\* ------------------------------------------ build without BRAYNS_USE_BRION
\* a stub that reports success
StubReturnsTrue == "true"

\* BRAYNS_ERROR << "Brion is required to load ..."; return false;
StubResult == "false"

\* the body shared by the four stubs: the parameters are unnamed, nothing is
\* read and nothing but the log is written
StubCall(name) ==
    /\ Idle
    /\ ~brion
    /\ op' = name
    /\ result' = StubResult
    /\ UNCHANGED <<cfg, badCells, input, scene, cache, im, sd, history>>
    /\ UNCHANGED circuitVars
    /\ UNCHANGED notLoader

\* bool MorphologyLoader::importMorphology(const servus::URI&, const int, Scene&)
StubImportMorphology == StubCall("morphology")

\* bool MorphologyLoader::importCircuit(const servus::URI&, const std::string&, Scene&)
StubImportCircuit == StubCall("circuit")

\* bool MorphologyLoader::importCircuit(const servus::URI&, const std::string&,
\*                                      const std::string&, Scene&)
StubImportCircuitReport == StubCall("circuitReport")

\* bool MorphologyLoader::importSimulationData(const servus::URI&,
\*     const std::string&, const std::string&, Scene&)
StubImportSimulationData == StubCall("simData")

\* ------------------------------------- AdvancedSimulationRenderer_shadeRay
\* Opacity, reflection and volume intensity are fixed-point numbers in units
\* of 1/Levels.  pathOpacity is kept in units of 1/Levels^NB_MAX_REBOUNDS so
\* that every product of the loop is exact.  The colour is kept as the list of
\* the blends (finalContribution, pathOpacity) applied to it.
RECURSIVE Pow(_, _)
Pow(b, e) == IF e = 0 THEN 1 ELSE b * Pow(b, e - 1)

PathOne == Pow(Levels, NB_MAX_REBOUNDS)

Quantities == 0..Levels

\* initializeShadingAttributes
InitialAttributes == [hit |-> FALSE, opacity |-> 0, reflection |-> 0,
                      volumeIntensity |-> 0, finalContribution |-> 0]

\* the depth test off by one: depth <= NB_MAX_REBOUNDS
LoopConditionInclusive == moreRebounds /\ depth <= NB_MAX_REBOUNDS /\ pathOpacity > 0

\* while (moreRebounds && depth < NB_MAX_REBOUNDS && pathOpacity > 0.f)
LoopCondition == moreRebounds /\ depth < NB_MAX_REBOUNDS /\ pathOpacity > 0

\* moreRebounds not cleared when the ray hit no geometry
MoreReboundsKeptOnMiss(hit, more, doRefraction, doReflection) ==
    more /\ (doRefraction \/ doReflection)

\* moreRebounds after one iteration: cleared when no geometry was hit, and
\* cleared when the surface is neither refracting nor reflecting
MoreReboundsAfter(hit, more, doRefraction, doReflection) ==
    (IF hit THEN more ELSE FALSE) /\ (doRefraction \/ doReflection)

\* Ray ray = sample.ray: the direction is the primary one until a bounce
\* replaces it by the refracted vector or the reflected normal
PrimaryRay == [dir |-> "primary"]

\* the switch taken on every other sample
ReflectOnOdd == sample.sampleIDz % 2 = 1

\* Switch between refraction and reflection
Reflect == sample.sampleIDz % 4 = 1

\* One iteration of the bounce loop.  traceRay, the material of the hit
\* surface, the volumes crossed and the lights are the host engine's: what
\* they return is drawn from the quantities.
ShadeBounce ==
    /\ shadePc = "loop"
    /\ LoopCondition
    /\ \E hit \in BOOLEAN, matOpacity \in Quantities, matReflection \in Quantities,
          vol \in Quantities, final \in {0, Levels} :
        LET shaded == hit /\ matOpacity > renderer.samplingThreshold /\ moreRebounds
            volumeIntensity == IF ~hit \/ shaded THEN vol ELSE 0
            surfaceOpacity == IF hit THEN matOpacity ELSE 0
            reflection == IF hit THEN matReflection ELSE 0
            \* processFinalContribution adds the volume intensity to the opacity
            opacity == IF volumeIntensity > 0
                       THEN surfaceOpacity + volumeIntensity ELSE surfaceOpacity
            doRefraction0 == opacity < Levels
            doReflection0 == reflection > 0
            doRefraction == IF doRefraction0 /\ doReflection0 THEN ~Reflect ELSE doRefraction0
            doReflection == IF doRefraction0 /\ doReflection0 THEN Reflect ELSE doReflection0
        IN  /\ (hit \/ (matOpacity = 0 /\ matReflection = 0))
            /\ (~hit \/ shaded \/ vol = 0)
            /\ attributes' = [hit |-> hit, opacity |-> opacity, reflection |-> reflection,
                              volumeIntensity |-> volumeIntensity,
                              finalContribution |-> final]
            /\ sample' = IF hit /\ depth = 0 THEN [sample EXCEPT !.z = "hit"] ELSE sample
            /\ totalOpacity' = totalOpacity + (IF hit THEN surfaceOpacity ELSE volumeIntensity)
            /\ color' = Append(color, <<final, pathOpacity>>)
            /\ pathOpacity' = IF doRefraction
                              THEN (pathOpacity * (Levels - opacity)) \div Levels
                              ELSE IF doReflection
                              THEN (pathOpacity * reflection) \div Levels
                              ELSE pathOpacity
            /\ ray' = IF doRefraction THEN [dir |-> "refracted"]
                      ELSE IF doReflection THEN [dir |-> "reflected"]
                      ELSE ray
            /\ moreRebounds' = MoreReboundsAfter(hit, moreRebounds, doRefraction, doReflection)
            /\ depth' = depth + 1
            /\ rays' = rays + 1
    /\ UNCHANGED <<shadePc, renderer>>
    /\ UNCHANGED notShade

\* sample.alpha = min(1.f, totalOpacity); return color;
ShadeReturn ==
    /\ shadePc = "loop"
    /\ ~LoopCondition
    /\ shadePc' = "done"
    /\ sample' = [sample EXCEPT !.alpha = Min(Levels, totalOpacity), !.rgb = color,
                                 !.returned = TRUE]
    /\ UNCHANGED <<depth, moreRebounds, pathOpacity, totalOpacity, color,
                   attributes, rays, renderer, ray>>
    /\ UNCHANGED notShade

\* ------------------- getVolumeContribution, getVolumeShadowContribution
\* The marching parameter t, the box distances t0, t1 and epsilon are kept in
\* units of 1/Grid, Grid being a common multiple of every sampling rate, so
\* that (samplingStep + shadingOccurence) / samplingRate is exact.  The voxel
\* values, the transfer function and composite() are the host engine's: the
\* opacity of a sample and the opacity composited so far are drawn.
RECURSIVE Factorial(_)
Factorial(n) == IF n = 0 THEN 1 ELSE n * Factorial(n - 1)

Grid == Factorial(MaxRate)

NoMarch == [pc |-> "none", samplingStep |-> 0, samplingRate |-> 1, t0 |-> 0, t1 |-> 0,
            t |-> 0, epsilon |-> 0, pathColorW |-> 0, shadowIntensity |-> 0,
            shadingOccurence |-> 0, iterations |-> 0]

\* for (float t = t0; t < t1 && pathColor.w < 1.f; t += epsilon)
ContributionCondition == march.t < march.t1 /\ march.pathColorW < Levels

\* one iteration of the loop of getVolumeContribution, with the t += epsilon
\* that both the "continue" and the end of the body lead to
MarchContribution ==
    /\ march.pc = "contribution"
    /\ ContributionCondition
    /\ \E sampleOpacity \in Quantities, composited \in Quantities :
        IF sampleOpacity <= renderer.samplingThreshold
        THEN /\ composited = 0
             /\ march' = [march EXCEPT !.t = @ + march.epsilon,
                                       !.iterations = (@ + 1) % IterationWrap]
        ELSE LET epsilon == ((march.samplingStep + march.shadingOccurence) * Grid)
                                \div march.samplingRate
             IN  /\ composited >= march.pathColorW
                 /\ march' = [march EXCEPT !.epsilon = epsilon,
                                           !.pathColorW = composited,
                                           !.shadingOccurence = @ + 1,
                                           !.t = @ + epsilon,
                                           !.iterations = (@ + 1) % IterationWrap]
    /\ UNCHANGED <<loaderVars, shadeVars, brion, section, shadow, keyboardVars>>

\* return pathColor * make_vec4f(make_vec3f(1.f - shadowIntensity), 1.f);
MarchContributionReturn ==
    /\ march.pc = "contribution"
    /\ ~ContributionCondition
    /\ march' = [march EXCEPT !.pc = "done"]
    /\ UNCHANGED <<loaderVars, shadeVars, brion, section, shadow, keyboardVars>>

\* for (float t = t1; t > epsilon && shadowIntensity < 1.f; t -= epsilon)
ShadowMarchCondition == march.t > march.epsilon /\ march.shadowIntensity < Levels

\* one iteration of the loop of getVolumeShadowContribution
MarchShadow ==
    /\ march.pc = "shadow"
    /\ ShadowMarchCondition
    /\ \E sampleOpacity \in Quantities :
        march' = [march EXCEPT !.shadowIntensity = @ + sampleOpacity,
                               !.t = @ - march.epsilon,
                               !.iterations = (@ + 1) % IterationWrap]
    /\ UNCHANGED <<loaderVars, shadeVars, brion, section, shadow, keyboardVars>>

\* return shadowIntensity;
MarchShadowReturn ==
    /\ march.pc = "shadow"
    /\ ~ShadowMarchCondition
    /\ march' = [march EXCEPT !.pc = "done"]
    /\ UNCHANGED <<loaderVars, shadeVars, brion, section, shadow, keyboardVars>>

\* ------------------------------------------------- shadedLightIntensity
\* The occluders of the shadow ray are kept in the order of their distance:
\* occluder k lies at distance k and has the opacity occluders[k].  Distances
\* are in units of the epsilon of the hit geometry.  The shadow intensity is
\* kept in units of 1/Levels^2 and the returned value in units of 1/Levels^3,
\* so that the products with renderer->shadows are exact.
ShadowOne == Levels * Levels

NoShadow == [pc |-> "none", occluders |-> <<>>, volumeCount |-> 0, shadows |-> 0,
             t0 |-> 0, shadowIntensity |-> 0, i |-> 0, traces |-> 0, hits |-> <<>>,
             consulted |-> <<>>, value |-> 0]

\* traceRay(renderer.model, shadowRay): the nearest occluder at a distance of
\* at least shadowRay.t0, 0 standing for geomID == -1
NearestOccluder(occluders, t0) ==
    IF \E k \in 1..Len(occluders) : k >= t0
    THEN CHOOSE k \in 1..Len(occluders) : k >= t0 /\ \A j \in 1..Len(occluders) : j >= t0 => k <= j
    ELSE 0

\* the ray restarted at the hit itself
NextT0AtHit(t, epsilon) == t

\* shadowRay.t0 = shadowRay.t + shadowingGeometry.epsilon;
NextT0(t, epsilon) == t + epsilon

\* one iteration of "while (shadowIntensity < 1.f)": trace, leave the loop on
\* a miss, otherwise add the opacity of the occluder and restart behind it
ShadowTrace ==
    /\ shadow.pc = "occluders"
    /\ shadow.shadowIntensity < ShadowOne
    /\ LET hit == NearestOccluder(shadow.occluders, shadow.t0)
       IN  IF hit = 0
           THEN shadow' = [shadow EXCEPT !.pc = "volumes", !.i = 0,
                                         !.traces = @ + 1, !.t0 = 0]
           ELSE shadow' = [shadow EXCEPT
                              !.shadowIntensity = @ + shadow.occluders[hit] * Levels,
                              !.t0 = NextT0(hit, 1),
                              !.traces = @ + 1,
                              !.hits = Append(@, hit)]
    /\ UNCHANGED <<loaderVars, shadeVars, brion, section, march, keyboardVars>>

\* the while loop left because the intensity reached 1
ShadowSaturated ==
    /\ shadow.pc = "occluders"
    /\ ~(shadow.shadowIntensity < ShadowOne)
    /\ shadow' = [shadow EXCEPT !.pc = "volumes", !.i = 0, !.t0 = 0]
    /\ UNCHANGED <<loaderVars, shadeVars, brion, section, march, keyboardVars>>

\* for (i = 0; shadowIntensity < 1.f && i < renderer.model->volumeCount; ++i)
VolumeShadowCondition ==
    shadow.shadowIntensity < ShadowOne /\ shadow.i < shadow.volumeCount

\* shadowIntensity += getVolumeShadowContribution(...) * renderer->shadows; the
\* contribution of a volume, when the call returns, is below 2
ShadowVolume ==
    /\ shadow.pc = "volumes"
    /\ VolumeShadowCondition
    /\ \E contribution \in 0..(2 * Levels - 1) :
        shadow' = [shadow EXCEPT
                     !.shadowIntensity = @ + contribution * shadow.shadows,
                     !.consulted = Append(@, shadow.shadowIntensity),
                     !.i = @ + 1]
    /\ UNCHANGED <<loaderVars, shadeVars, brion, section, march, keyboardVars>>

\* return clamp(shadowIntensity * renderer->shadows, 0.f, 1.f);
ShadowReturn ==
    /\ shadow.pc = "volumes"
    /\ ~VolumeShadowCondition
    /\ LET product == shadow.shadowIntensity * shadow.shadows
           one == ShadowOne * Levels
       IN  shadow' = [shadow EXCEPT
                        !.pc = "done",
                        !.value = IF product < 0 THEN 0
                                  ELSE IF product > one THEN one ELSE product]
    /\ UNCHANGED <<loaderVars, shadeVars, brion, section, march, keyboardVars>>

\* ------------------------------------------------------ KeyboardHandler
\* _registeredShortcuts is a std::map from a key to a ShortcutInformation
\* { description, functor }; it is kept as the set of its entries.  A functor
\* is known by its identity; calling it is recorded in "invoked".  The handler
\* never compares two functors, so every call of registerKeyboardShortcut
\* passes a functor of its own, known by the position of the call.
Keys == 1..NbKeys
Functors == 1..MaxOperations
Descriptions == {"first", "second"}

\* a lookup that returns whatever entry the map holds
FindAny(key) == registeredShortcuts

\* _registeredShortcuts.find( key ): the entries found (none stands for end())
Find(key) == {e \in registeredShortcuts : e.key = key}

\* the test left out: no key counts as registered
AlreadyRegisteredNever(key) == FALSE

\* _registeredShortcuts.find( key ) != _registeredShortcuts.end()
AlreadyRegistered(key) == Find(key) # {}

\* _registeredShortcuts[ key ] = shortcutInformation
Assign(map, key, description, functor) ==
    {e \in map : e.key # key}
        \cup {[key |-> key, description |-> description, functor |-> functor]}

\* an erase that clears the map
EraseAll(map, it) == {}

\* _registeredShortcuts.erase( it )
Erase(map, it) == map \ it

\* the functor that the next call of registerKeyboardShortcut passes
NewFunctor == Len(operations) + 1

\* the operation a call applies, as the caller issued it
Operation(name, key, description, functor) ==
    [name |-> name, key |-> key, description |-> description, functor |-> functor]

\* the entries of a map in the order of iteration, by increasing key
RECURSIVE InKeyOrder(_)
InKeyOrder(map) ==
    IF map = {} THEN <<>>
    ELSE LET first == CHOOSE e \in map : \A o \in map : e.key <= o.key
         IN  <<first>> \o InKeyOrder({o \in map : o.key # first.key})

\* void KeyboardHandler::registerKeyboardShortcut( key, description, functor )
RegisterKeyboardShortcut(key, description, functor) ==
    /\ Len(operations) < MaxOperations
    /\ registeredShortcuts' =
          IF AlreadyRegistered(key) THEN registeredShortcuts
          ELSE Assign(registeredShortcuts, key, description, functor)
    /\ operations' = Append(operations, Operation("register", key, description, functor))
    /\ UNCHANGED <<invoked, helpText, handling>>
    /\ UNCHANGED notKeyboard

\* void KeyboardHandler::unregisterKeyboardShortcut( key )
UnregisterKeyboardShortcut(key) ==
    /\ Len(operations) < MaxOperations
    /\ LET it == Find(key)
       IN  registeredShortcuts' =
              IF it # {} THEN Erase(registeredShortcuts, it) ELSE registeredShortcuts
    /\ operations' = Append(operations, Operation("unregister", key, "", 0))
    /\ UNCHANGED <<invoked, helpText, handling>>
    /\ UNCHANGED notKeyboard

\* void KeyboardHandler::handleKeyboardShortcut( key ); the functors registered
\* here leave the handler alone
HandleKeyboardShortcut(key) ==
    /\ Len(operations) < MaxOperations
    /\ LET it == Find(key)
       IN  invoked' = IF it # {}
                      THEN Append(invoked, (CHOOSE e \in it : TRUE).functor)
                      ELSE invoked
    /\ operations' = Append(operations, Operation("handle", key, "", 0))
    /\ UNCHANGED <<registeredShortcuts, helpText, handling>>
    /\ UNCHANGED notKeyboard

\* std::string KeyboardHandler::help(): the title, then one line
\* "'key' description" per entry of the map
Help ==
    /\ Len(operations) < MaxOperations
    /\ LET entries == InKeyOrder(registeredShortcuts)
       IN  helpText' = <<"Keyboard shortcuts:">>
                          \o [n \in 1..Len(entries) |->
                                <<"'", entries[n].key, "' ", entries[n].description>>]
    /\ operations' = Append(operations, Operation("help", 0, "", 0))
    /\ UNCHANGED <<registeredShortcuts, invoked, handling>>
    /\ UNCHANGED notKeyboard

\* ---------------- handleKeyboardShortcut with functors that call back
\* A functor may call registerKeyboardShortcut, unregisterKeyboardShortcut
\* and handleKeyboardShortcut of the handler that is calling it.  "handling"
\* holds one frame per call of handleKeyboardShortcut in progress, innermost
\* last: the key and the map entry that the iterator "it" of the call points
\* to.  Every registration has a functor of its own, so that an entry is in
\* the map exactly as long as it has not been erased.  "erased" tells that
\* some call returned after its entry had been erased, "stale" that the
\* handler then read through the iterator of that entry.
NoHandling == [stack |-> <<>>, returns |-> 0, erased |-> FALSE, stale |-> FALSE]

\* the iterator of the frame points to an entry that was erased
Dangling(frame) == frame.it \notin registeredShortcuts

\* a handler that writes its log line after the functor has returned
ReadsAfterCallDescription == {"description"}

\* the members of *it that handleKeyboardShortcut reads after
\* (*it).second.functor() has returned: the call is its last statement
ReadsAfterCall == {}

\* handleKeyboardShortcut( key ) up to the call of the functor: find, the
\* test against end(), the log line, then the functor is entered
HandleCall(key) ==
    /\ Len(operations) < MaxOperations
    /\ Len(handling.stack) < MaxNesting
    /\ LET it == Find(key)
       IN  IF it # {}
           THEN LET entry == CHOOSE e \in it : TRUE
                IN  /\ invoked' = Append(invoked, entry.functor)
                    /\ handling' = [handling EXCEPT
                                      !.stack = Append(@, [key |-> key, it |-> entry])]
           ELSE UNCHANGED <<invoked, handling>>
    /\ operations' = Append(operations, Operation("handle", key, "", 0))
    /\ UNCHANGED <<registeredShortcuts, helpText>>
    /\ UNCHANGED notKeyboard

\* the functor of the innermost call returns and handleKeyboardShortcut runs
\* to its end; a read through an iterator whose entry was erased is recorded
HandleReturn ==
    /\ handling.stack # <<>>
    /\ LET frame == handling.stack[Len(handling.stack)]
       IN  handling' = [stack |-> SubSeq(handling.stack, 1, Len(handling.stack) - 1),
                        returns |-> handling.returns + 1,
                        erased |-> handling.erased \/ Dangling(frame),
                        stale |-> handling.stale
                                     \/ (ReadsAfterCall # {} /\ Dangling(frame))]
    /\ UNCHANGED <<registeredShortcuts, invoked, operations, helpText>>
    /\ UNCHANGED notKeyboard

\* KeyboardHandler::KeyboardHandler: no shortcut is registered
KeyboardIdle ==
    /\ registeredShortcuts = {}
    /\ invoked = <<>>
    /\ operations = <<>>
    /\ helpText = <<>>
    /\ handling = NoHandling

\* ------------------------------------------------------------ the systems
ColorSchemes == {"none", "neuron_by_id", "neuron_by_segment_type"}

\* the geometry parameters the loader is run with
Configs == [useMetaballs : BOOLEAN, meshedMorphologiesFolder : BOOLEAN,
            useSimulationModel : BOOLEAN, circuitDensity : {50, 100},
            nonSimulatedCells : 0..1, colorScheme : {"neuron_by_segment_type"}]

DefaultConfig == [useMetaballs |-> FALSE, meshedMorphologiesFolder |-> FALSE,
                  useSimulationModel |-> FALSE, circuitDensity |-> 100,
                  nonSimulatedCells |-> 0, colorScheme |-> "neuron_by_segment_type"]

NoSample == [sampleIDz |-> 0, z |-> "inf", alpha |-> 0, rgb |-> <<>>, returned |-> FALSE]

LoaderIdle ==
    /\ op = "none"
    /\ result = "none"
    /\ input = NoInput
    /\ pass = "none"
    /\ todo = {}
    /\ pc = [t \in Threads |-> "idle"]
    /\ cur = [t \in Threads |-> 0]
    /\ priv = [t \in Threads |-> EmptyPrivate]
    /\ tmp = [t \in Threads |-> EmptyTmp]
    /\ lock = 0
    /\ morphologyOffsets = EmptyOffsets
    /\ simulationOffset = 0
    /\ simulatedCells = 0
    /\ scene = EmptyScene
    /\ im = NoMorphology
    /\ sd = NoSim
    /\ generated = {}
    /\ cellOffset = EmptyOffsets
    /\ imported = {}
    /\ failed = {}
    /\ used = {}

ShadeIdle ==
    /\ shadePc = "idle"
    /\ depth = 0
    /\ moreRebounds = TRUE
    /\ pathOpacity = PathOne
    /\ totalOpacity = 0
    /\ color = <<>>
    /\ attributes = InitialAttributes
    /\ rays = 0
    /\ renderer = [samplingThreshold |-> 0]
    /\ sample = NoSample
    /\ ray = PrimaryRay

\* no section being imported, no volume being marched, no shadow ray, a
\* KeyboardHandler without shortcuts
OthersIdle ==
    /\ section = NoSection
    /\ march = NoMarch
    /\ shadow = NoShadow
    /\ KeyboardIdle

\* a MorphologyLoader constructed over some GeometryParameters, the files on
\* disk, an empty scene
Init ==
    /\ \/ /\ cfg \in Configs
          /\ badCells \in SUBSET Cells
          /\ cache = EmptyCache
       \/ /\ cfg \in {[DefaultConfig EXCEPT !.colorScheme = c] : c \in ColorSchemes}
          /\ badCells = {}
          /\ cache \in {EmptyCache, OldCache}
    /\ brion = TRUE
    /\ LoaderIdle
    /\ ShadeIdle
    /\ OthersIdle

Next ==
    \/ ImportCircuit
    \/ ImportCircuitReport
    \/ \E t \in Threads : IterationSkipped(t)
    \/ \E t \in Threads : IterationMetaballs(t)
    \/ \E t \in Threads : MetaballsEnd(t)
    \/ \E t \in Threads : IterationMesh(t)
    \/ \E t \in Threads : MeshEnd(t)
    \/ \E t \in Threads : IterationMorphology(t)
    \/ \E t \in Threads : OffsetRead(t)
    \/ \E t \in Threads : OffsetWrite(t)
    \/ \E t \in Threads : EnterCritical(t)
    \/ \E t \in Threads : LeaveCritical(t)
    \/ \E t \in Threads : BoundsRead(t)
    \/ \E t \in Threads : BoundsWrite(t)
    \/ Barrier
    \/ AfterMain
    \/ ImportSimulationData
    \/ SimulationWriteHeader
    \/ SimulationWriteFrame
    \/ SimulationReturn
    \/ ImportMorphology
    \/ ImportMorphologyReturn

Spec == Init /\ [][Next]_vars

\* the loader when the one call made on it is importSimulationData
NextSimulation ==
    \/ ImportSimulationData
    \/ SimulationWriteHeader
    \/ SimulationWriteFrame
    \/ SimulationReturn

SpecSimulation == Init /\ [][NextSimulation]_vars

\* shadeRay entered for one screen sample
InitShade ==
    /\ cfg = DefaultConfig
    /\ badCells = {}
    /\ cache = EmptyCache
    /\ brion = TRUE
    /\ LoaderIdle
    /\ OthersIdle
    /\ shadePc = "loop"
    /\ depth = 0
    /\ moreRebounds = TRUE
    /\ pathOpacity = PathOne
    /\ totalOpacity = 0
    /\ color = <<>>
    /\ attributes = InitialAttributes
    /\ rays = 0
    /\ renderer \in [samplingThreshold : 0..(Levels - 1)]
    /\ sample \in {[NoSample EXCEPT !.sampleIDz = z] : z \in 0..3}
    /\ ray = PrimaryRay

NextShade ==
    \/ ShadeBounce
    \/ ShadeReturn

\* the kernel runs to completion once the host engine has called it
SpecShade == InitShade /\ [][NextShade]_vars /\ WF_vars(NextShade)

\* a scene that already holds the geometry of one morphology
LoadedScene ==
    [AddPrims(EmptyScene, MorphologyPrims("morphology", 0, 1, "NO_MATERIAL"))
        EXCEPT !.bounds = {1}]

\* the loader of a build without BRAYNS_USE_BRION, over any parameters, files
\* and scene
InitStub ==
    /\ cfg \in Configs
    /\ badCells \in SUBSET Cells
    /\ cache \in {EmptyCache, OldCache}
    /\ brion = FALSE
    /\ op = "none"
    /\ result = "none"
    /\ input = NoInput
    /\ pass = "none"
    /\ todo = {}
    /\ pc = [t \in Threads |-> "idle"]
    /\ cur = [t \in Threads |-> 0]
    /\ priv = [t \in Threads |-> EmptyPrivate]
    /\ tmp = [t \in Threads |-> EmptyTmp]
    /\ lock = 0
    /\ morphologyOffsets = EmptyOffsets
    /\ simulationOffset = 0
    /\ simulatedCells = 0
    /\ scene \in {EmptyScene, LoadedScene}
    /\ im = NoMorphology
    /\ sd = NoSim
    /\ generated = {}
    /\ cellOffset = EmptyOffsets
    /\ imported = {}
    /\ failed = {}
    /\ used = {}
    /\ ShadeIdle
    /\ OthersIdle

NextStub ==
    \/ StubImportMorphology
    \/ StubImportCircuit
    \/ StubImportCircuitReport
    \/ StubImportSimulationData

SpecStub == InitStub /\ [][NextStub]_vars

\* the parts that take no part in the rendering and section specifications
LoaderUnused ==
    /\ cfg = DefaultConfig
    /\ badCells = {}
    /\ cache = EmptyCache
    /\ brion = TRUE
    /\ LoaderIdle

\* _importMorphology about to handle one section: the section read from the
\* morphology, the geometry quality and radius correction of the parameters,
\* and the simulation information or simulation offset it was called with
InitSection ==
    /\ LoaderUnused
    /\ ShadeIdle
    /\ march = NoMarch
    /\ shadow = NoShadow
    /\ KeyboardIdle
    /\ \E samples \in SeqsUpTo(SampleValues, MaxSamples), quality \in Qualities,
          radiusCorrection \in 0..1,
          sim \in ([simulationInformation : {TRUE}, count : 0..MaxCompartments,
                    simulationOffset : {0}]
                   \cup [simulationInformation : {FALSE}, count : {0},
                         simulationOffset : {0, 2}]) :
        section = [NoSection EXCEPT
                     !.pc = "begin",
                     !.samples = samples,
                     !.quality = quality,
                     !.radiusCorrection = radiusCorrection,
                     !.simulationInformation = sim.simulationInformation,
                     !.count = sim.count,
                     !.compartmentOffset = IF sim.simulationInformation THEN 1 ELSE 0,
                     !.simulationOffset = sim.simulationOffset,
                     !.distanceToSoma = 1,
                     !.offset = 0,
                     !.visits = [k \in 1..Len(samples) |-> 0]]

NextSection ==
    \/ SectionBegin
    \/ SectionIteration
    \/ SectionEnd

SpecSection == InitSection /\ [][NextSection]_vars /\ WF_vars(NextSection)

\* one of the two marching functions entered for a volume and a ray: the loop
\* variable t is at its start (t0, respectively t1)
InitMarch ==
    /\ LoaderUnused
    /\ shadePc = "idle"
    /\ depth = 0
    /\ moreRebounds = TRUE
    /\ pathOpacity = PathOne
    /\ totalOpacity = 0
    /\ color = <<>>
    /\ attributes = InitialAttributes
    /\ rays = 0
    /\ renderer \in [samplingThreshold : 0..(Levels - 1)]
    /\ sample = NoSample
    /\ ray = PrimaryRay
    /\ section = NoSection
    /\ shadow = NoShadow
    /\ KeyboardIdle
    /\ \E samplingStep \in 0..MaxStep, samplingRate \in 1..MaxRate, length \in 0..MaxDistance :
        \/ march = [NoMarch EXCEPT !.pc = "contribution",
                                   !.samplingStep = samplingStep,
                                   !.samplingRate = samplingRate,
                                   !.t0 = 0, !.t1 = length * Grid,
                                   !.t = 0,
                                   !.epsilon = samplingStep * Grid]
        \/ march = [NoMarch EXCEPT !.pc = "shadow",
                                   !.samplingStep = samplingStep,
                                   !.samplingRate = samplingRate,
                                   !.t0 = 0, !.t1 = length * Grid,
                                   !.t = length * Grid,
                                   !.epsilon = (samplingStep * Grid) \div samplingRate]

NextMarch ==
    \/ MarchContribution
    \/ MarchContributionReturn
    \/ MarchShadow
    \/ MarchShadowReturn

\* a marching function, once called, keeps running
SpecMarch == InitMarch /\ [][NextMarch]_vars /\ WF_vars(NextMarch)

\* shadedLightIntensity entered: the shadow ray starts at dg.epsilon, in front
\* of every occluder
InitShadow ==
    /\ LoaderUnused
    /\ ShadeIdle
    /\ section = NoSection
    /\ march = NoMarch
    /\ KeyboardIdle
    /\ \E occluders \in SeqsUpTo(Quantities, MaxOccluders),
          volumeCount \in 0..MaxVolumes, shadows \in Quantities :
        shadow = [NoShadow EXCEPT !.pc = "occluders",
                                  !.occluders = occluders,
                                  !.volumeCount = volumeCount,
                                  !.shadows = shadows]

NextShadow ==
    \/ ShadowTrace
    \/ ShadowSaturated
    \/ ShadowVolume
    \/ ShadowReturn

SpecShadow == InitShadow /\ [][NextShadow]_vars /\ WF_vars(NextShadow)

\* a KeyboardHandler after construction
InitKeyboard ==
    /\ LoaderUnused
    /\ ShadeIdle
    /\ section = NoSection
    /\ march = NoMarch
    /\ shadow = NoShadow
    /\ KeyboardIdle

NextKeyboard ==
    \/ \E key \in Keys, description \in Descriptions :
          RegisterKeyboardShortcut(key, description, NewFunctor)
    \/ \E key \in Keys : UnregisterKeyboardShortcut(key)
    \/ \E key \in Keys : HandleKeyboardShortcut(key)
    \/ Help

SpecKeyboard == InitKeyboard /\ [][NextKeyboard]_vars

\* a KeyboardHandler whose functors call back into it: the calls made while
\* a frame is open are made by the functor that is running
NextReentrant ==
    \/ \E key \in Keys, description \in Descriptions :
          RegisterKeyboardShortcut(key, description, NewFunctor)
    \/ \E key \in Keys : UnregisterKeyboardShortcut(key)
    \/ \E key \in Keys : HandleCall(key)
    \/ HandleReturn

SpecReentrant == InitKeyboard /\ [][NextReentrant]_vars

\* ================================================================ claims
CircuitOps == {"circuit", "circuitReport"}
LoaderBoundary == {"circuit", "circuitReport", "simData"}
LoopPhase == {"loop", "metaW", "meshW", "off", "offW"}

\* thread t is in the middle of merging its private buffers into the shared
\* container k
Merging(t, k) ==
    \/ k = "spheres" /\ pc[t] = "inS"
    \/ k = "cylinders" /\ pc[t] = "inY"
    \/ k = "cones" /\ pc[t] = "inO"
    \/ k = "bounds" /\ pc[t] = "bndW"

\* C1: no two worker threads are ever merging into the same shared container
\* (spheres, cylinders, cones, world bounds) at the same time.
C1_MergesMutuallyExclusive ==
    \A t1 \in Threads, t2 \in Threads :
        \A k \in {"spheres", "cylinders", "cones", "bounds"} :
            t1 # t2 => ~(Merging(t1, k) /\ Merging(t2, k))

\* C2: a step of a worker thread inside the parallel per-cell loop leaves the
\* scene (spheres, cylinders, cones, triangle meshes, world bounds) unchanged.
C2_LoopWritesOnlyPrivate ==
    [][\A t \in Threads :
          (pc[t] \in LoopPhase /\ pc'[t] \in LoopPhase /\ pc'[t] # pc[t])
              => scene' = scene]_vars

\* the primitives of one kind and material that the workers generated
GeneratedIn(kind, m) ==
    SetToBag({q.id : q \in {g \in generated : g.kind = kind /\ g.material = m}})

\* C3: once a parallel region of importCircuit is complete, the scene's sphere,
\* cylinder and cone list of every material holds every primitive generated
\* by any worker exactly once.
C3_AllPrimitivesMergedOnce ==
    (op \in CircuitOps /\ pass \in {"join", "done"}) =>
        \A kind \in {"spheres", "cylinders", "cones"}, m \in Materials :
            scene[kind][m] = GeneratedIn(kind, m)

C3_Witness ==
    /\ op \in CircuitOps
    /\ result = "true"
    /\ \E t1 \in Threads, t2 \in Threads, m \in Materials :
        /\ t1 # t2
        /\ priv[t1].spheres[m] # EmptyBag
        /\ priv[t2].spheres[m] # EmptyBag
        /\ BagCardinality(scene.spheres[m]) > 1

RECURSIVE SumDistances(_)
SumDistances(S) ==
    IF S = {} THEN 0
    ELSE LET i == CHOOSE x \in S : TRUE
         IN  MaxDistanceToSoma(Nth(input.gids, i)) + SumDistances(S \ {i})

ImportedIndices == {i \in 0..(Cardinality(input.gids) - 1) : <<"main", i>> \in imported}

\* C4: when importCircuit without a report returns, the simulation offset has
\* advanced by the maxDistanceToSoma of every imported cell, no two imported
\* cells were given overlapping offset ranges, and every imported cell has
\* its own entry in morphologyOffsets.
C4_OffsetsPerCell ==
    (op = "circuit" /\ result = "true") =>
        /\ simulationOffset = 1 + SumDistances(ImportedIndices)
        /\ \A i \in ImportedIndices, j \in ImportedIndices :
              i # j =>
                 \/ cellOffset[i] + MaxDistanceToSoma(Nth(input.gids, i)) <= cellOffset[j]
                 \/ cellOffset[j] + MaxDistanceToSoma(Nth(input.gids, j)) <= cellOffset[i]
        /\ Cardinality(DOMAIN morphologyOffsets) = Cardinality(ImportedIndices)

StopReached ==
    /\ shadePc = "loop"
    /\ depth > 0
    /\ \/ pathOpacity <= 0
       \/ ~attributes.hit
       \/ attributes.opacity >= Levels /\ attributes.reflection <= 0

\* C6: once the path opacity is used up, or no geometry was hit, or the hit
\* surface neither refracts nor reflects, no further ray is traced and the
\* colour accumulated so far is returned unchanged.
C6_EarlyTermination ==
    [][StopReached =>
          (rays' = rays /\ color' = color /\ shadePc' = "done" /\ sample'.rgb = color)]_vars

C6_Witness ==
    /\ shadePc = "done"
    /\ rays < NB_MAX_REBOUNDS
    /\ ~attributes.hit
    /\ attributes.opacity < Levels
    /\ pathOpacity > 0

\* a call at the loader boundary that read its files and selected no cell
EmptySetCall ==
    /\ op \in LoaderBoundary
    /\ input.fileOK
    /\ input.gids = {}

\* C7: with an empty GID set importCircuit (both overloads) and
\* importSimulationData return false and leave scene and cache file unchanged.
C7_EmptyCellSet ==
    [][EmptySetCall' => (result' = "false" /\ scene' = scene /\ cache' = cache)]_vars

C7_Witness ==
    /\ EmptySetCall
    /\ op = "simData"
    /\ result = "false"
    /\ ~scene.handler

\* C8: when reading the circuit configuration, the circuit or the compartment
\* report raises an error, the call at the loader boundary returns false.
C8_ReadErrorReturnsFalse ==
    (op \in LoaderBoundary /\ (~input.fileOK \/ ~input.reportOK)) => result = "false"

\* C9: importCircuit returns true only if every selected, non-skipped cell
\* was imported without error.
C9_TrueOnlyIfAllImported ==
    (op \in CircuitOps /\ result = "true") => failed = {}

\* C10: importMorphology returns true exactly when every import step it
\* attempted succeeded; after a failed metaballs mesh import the parametric
\* import is not attempted and spheres, cylinders and cones are unchanged; no
\* runtime error reaches the caller.
C10_ImportMorphologyResult ==
    (op = "morphology" /\ result # "running") =>
        /\ result \in {"true", "false"}
        /\ (result = "true") <=> (im.failedSteps = {})
        /\ (cfg.useMetaballs <=> "mesh" \in im.attempted)
        /\ ("mesh" \in im.failedSteps) <=> (cfg.useMetaballs /\ (im.uri \in badCells \/ ~im.meshOK))
        /\ ("parametric" \in im.failedSteps) <=> ("parametric" \in im.attempted /\ im.uri \in badCells)
        /\ "mesh" \in im.failedSteps =>
              /\ "parametric" \notin im.attempted
              /\ scene.spheres = EmptyMap
              /\ scene.cylinders = EmptyMap
              /\ scene.cones = EmptyMap
        /\ "mesh" \notin im.failedSteps => "parametric" \in im.attempted

C10_Witness ==
    /\ op = "morphology"
    /\ result = "false"
    /\ "mesh" \in im.failedSteps
    /\ im.uri \notin badCells

\* C11: in a build without BRAYNS_USE_BRION, importMorphology, both
\* importCircuit overloads and importSimulationData return false and leave the
\* scene as it was.
C11_StubsReturnFalse ==
    [][~brion => /\ scene' = scene
                 /\ (op' # "none" => result' = "false")]_vars

C11_Witness ==
    /\ ~brion
    /\ op = "simData"
    /\ result = "false"
    /\ scene = LoadedScene
    /\ scene # EmptyScene

\* C12: a call of importSimulationData that returns false because the cache
\* file cannot be created (the cell set was not empty) leaves the scene as it
\* was before the call: no simulation handler is installed.
C12_FailedCacheLeavesScene ==
    [][(op = "none" /\ op' = "simData" /\ result' = "false" /\ input'.gids # {})
          => (scene' = scene /\ ~scene'.handler)]_vars

C14_SamplesAdvanceThroughCompartments ==
    (section.simulationInformation /\ section.count > 1) =>
        \A e \in section.emitted :
            e.kind = "spheres" =>
                e.offset = section.compartmentOffset * Len(section.samples)
                               + e.i * section.count

\* C15: ray marching in getVolumeContribution and getVolumeShadowContribution
\* terminates for every volume and ray.
C15_MarchingTerminates == <>(march.pc = "done")

\* C16: on every bounce of shadeRay at most one of refraction and reflection
\* is applied; on a surface that is both non-opaque and reflective it is the
\* reflection iff sampleID.z mod 4 = 1; a refraction multiplies pathOpacity by
\* 1 - opacity, a reflection by reflection, and pathOpacity does not increase
\* when opacity and reflection lie in [0, 1].
C16_RefractionOrReflection ==
    [][depth' = depth + 1 =>
         LET opacity == attributes'.opacity
             reflection == attributes'.reflection
             refracted == /\ ray'.dir = "refracted"
                          /\ pathOpacity' * Levels = pathOpacity * (Levels - opacity)
             reflected == /\ ray'.dir = "reflected"
                          /\ pathOpacity' * Levels = pathOpacity * reflection
             neither == ray' = ray /\ pathOpacity' = pathOpacity /\ ~moreRebounds'
         IN  /\ CASE opacity < Levels /\ reflection > 0 ->
                        IF sample.sampleIDz % 4 = 1 THEN reflected ELSE refracted
                  [] opacity < Levels /\ ~(reflection > 0) -> refracted
                  [] ~(opacity < Levels) /\ reflection > 0 -> reflected
                  [] OTHER -> neither
             /\ (opacity \in 0..Levels /\ reflection \in 0..Levels)
                    => pathOpacity' <= pathOpacity]_vars

C16_Witness ==
    /\ depth > 0
    /\ attributes.hit
    /\ attributes.opacity \in 1..(Levels - 1)
    /\ attributes.reflection \in 1..(Levels - 1)
    /\ sample.sampleIDz = 1
    /\ ray.dir = "reflected"
    /\ pathOpacity < PathOne

\* C17: in shadedLightIntensity the shadow ray is traced again only while the
\* accumulated intensity is below 1 and the previous trace hit an occluder;
\* every trace after a hit starts strictly behind that hit, so no occluder is
\* hit twice, at most one trace more than there are occluders is made and the
\* loop over the occluders ends, also when occluders have opacity 0; a volume
\* is consulted only while the intensity is below 1; the value returned lies
\* in [0, 1].
C17_ShadowAccumulation ==
    /\ [][shadow'.traces # shadow.traces =>
            /\ shadow.shadowIntensity < ShadowOne
            /\ shadow.traces = Len(shadow.hits)
            /\ \A k \in 1..Len(shadow.hits) : shadow.t0 > shadow.hits[k]]_vars
    /\ [](/\ shadow.traces <= Len(shadow.occluders) + 1
          /\ \A j \in 1..Len(shadow.hits), k \in 1..Len(shadow.hits) :
                j < k => shadow.hits[j] < shadow.hits[k]
          /\ \A k \in 1..Len(shadow.consulted) : shadow.consulted[k] < ShadowOne
          /\ shadow.pc = "done" => shadow.value \in 0..(ShadowOne * Levels))
    /\ <>[](shadow.pc # "occluders")

C17_Witness ==
    /\ shadow.pc = "done"
    /\ Len(shadow.occluders) = MaxOccluders
    /\ shadow.occluders[1] = 0
    /\ Len(shadow.hits) = MaxOccluders
    /\ shadow.traces = MaxOccluders + 1
    /\ Len(shadow.consulted) > 0
    /\ shadow.value > 0

\* the call that a step of the handler applies
LastOperation == operations[Len(operations)]

\* the positions of the operations on key k
OperationsOn(name, k) ==
    {n \in 1..Len(operations) : operations[n].name = name /\ operations[n].key = k}

\* position of the last unregistration of key k among the first n operations
\* (0 when there is none)
LastUnregistered(k, n) ==
    LET before == {m \in OperationsOn("unregister", k) : m <= n}
    IN  IF before = {} THEN 0 ELSE CHOOSE m \in before : \A o \in before : o <= m

\* the registrations of key k among the first n operations that were issued
\* after its last unregistration: the first of them is the one in force, the
\* others were issued on a registered key
RegistrationsSince(k, n) ==
    {m \in OperationsOn("register", k) : LastUnregistered(k, n) < m /\ m <= n}

InForce(k, n) ==
    LET since == RegistrationsSince(k, n)
    IN  CHOOSE m \in since : \A o \in since : m <= o

\* C18: registering a key that is already registered leaves the registry and
\* the functors as they are; a later handleKeyboardShortcut of that key calls
\* the functor registered first; the registry never holds two shortcuts for
\* one key.
C18_DuplicateRegistrationRejected ==
    /\ [][(/\ Len(operations') = Len(operations) + 1
           /\ operations'[Len(operations')].name = "register"
           /\ \E e \in registeredShortcuts : e.key = operations'[Len(operations')].key)
             => (registeredShortcuts' = registeredShortcuts /\ invoked' = invoked)]_vars
    /\ [](\A e1 \in registeredShortcuts, e2 \in registeredShortcuts :
             e1.key = e2.key => e1 = e2)
    /\ []((/\ operations # <<>>
           /\ LastOperation.name = "handle"
           /\ Cardinality(RegistrationsSince(LastOperation.key, Len(operations))) > 1)
             => /\ invoked # <<>>
                /\ invoked[Len(invoked)] =
                      operations[InForce(LastOperation.key, Len(operations))].functor)

C18_Witness ==
    /\ Len(operations) > 2
    /\ LastOperation.name = "handle"
    /\ LET k == LastOperation.key
           since == RegistrationsSince(k, Len(operations))
       IN  /\ Cardinality(since) > 1
           /\ \E m \in since :
                 operations[m].functor # operations[InForce(k, Len(operations))].functor
    /\ Len(invoked) = 1

\* C19: handleKeyboardShortcut(k) calls exactly once the functor of the
\* registration of k in force (the first one issued since k was last
\* unregistered), calls no other functor, calls nothing when k is not
\* registered, and leaves the registry unchanged.
C19_HandleInvokesRegistered ==
    [][(/\ Len(operations') = Len(operations) + 1
        /\ operations'[Len(operations')].name = "handle")
          => LET k == operations'[Len(operations')].key
                 n == Len(operations)
             IN  /\ registeredShortcuts' = registeredShortcuts
                 /\ invoked' = IF RegistrationsSince(k, n) = {} THEN invoked
                               ELSE Append(invoked, operations[InForce(k, n)].functor)]_vars

C19_Witness ==
    /\ Len(operations) = MaxOperations
    /\ operations[1].name = "register"
    /\ operations[2] = Operation("unregister", operations[1].key, "", 0)
    /\ operations[3].name = "register"
    /\ operations[3].key = operations[1].key
    /\ operations[3].functor # operations[1].functor
    /\ LastOperation = Operation("handle", operations[1].key, "", 0)
    /\ invoked = <<operations[3].functor>>

\* the keys listed by the text of help(), line by line after the title
HelpKeys == [n \in 1..(Len(helpText) - 1) |-> helpText[n + 1][2]]

\* C20: unregisterKeyboardShortcut(k) removes the entry of k and no other,
\* and does nothing when k is not registered; after it k can be registered
\* again and the new registration is the one held; help() lists every
\* registered key once and no other key.
C20_UnregisterAndHelp ==
    /\ [][(/\ Len(operations') = Len(operations) + 1
           /\ operations'[Len(operations')].name = "unregister")
             => registeredShortcuts' =
                   {e \in registeredShortcuts : e.key # operations'[Len(operations')].key}]_vars
    /\ [][(/\ Len(operations) > 0
           /\ Len(operations') = Len(operations) + 1
           /\ LastOperation.name = "unregister"
           /\ operations'[Len(operations')].name = "register"
           /\ operations'[Len(operations')].key = LastOperation.key)
             => LET o == operations'[Len(operations')]
                IN  {e \in registeredShortcuts' : e.key = o.key} =
                       {[key |-> o.key, description |-> o.description,
                         functor |-> o.functor]}]_vars
    /\ []((operations # <<>> /\ LastOperation.name = "help") =>
             /\ helpText # <<>>
             /\ {HelpKeys[n] : n \in 1..Len(HelpKeys)} = {e.key : e \in registeredShortcuts}
             /\ \A i \in 1..Len(HelpKeys), j \in 1..Len(HelpKeys) :
                   HelpKeys[i] = HelpKeys[j] => i = j)

C20_Witness ==
    /\ Len(operations) = MaxOperations
    /\ operations[1].name = "register"
    /\ operations[2].name = "register"
    /\ operations[2].key # operations[1].key
    /\ operations[3] = Operation("unregister", operations[1].key, "", 0)
    /\ LastOperation.name = "help"
    /\ Len(helpText) = 2
    /\ helpText[2] = <<"'", operations[2].key, "' ", operations[2].description>>

\* the registry that the operations issued so far produce, one after the
\* other: for each key the registration in force, if any
ProducedRegistry ==
    {[key |-> operations[m].key, description |-> operations[m].description,
      functor |-> operations[m].functor] :
        m \in {InForce(k, Len(operations)) :
                 k \in {j \in Keys : RegistrationsSince(j, Len(operations)) # {}}}}

C22_SampleLoopTerminates ==
    /\ <>(section.pc = "done")
    /\ []((section.pc = "done" /\ section.samples # <<>>) => section.done)

\* the indices of the samples of the section
SampleIndices == 0..(Len(section.samples) - 1)

\* C23: in the sample loop no sample index is processed twice, the last
\* sample of the section has been processed when the loop is left, and every
\* index used on samples and distancesToSoma lies inside the vectors.
C23_EachSampleOnceInBounds ==
    /\ \A k \in 1..Len(section.visits) : section.visits[k] <= 1
    /\ section.accessed \subseteq SampleIndices
    /\ (section.pc = "done" /\ section.samples # <<>>) =>
           section.visits[Len(section.samples)] >= 1

\* the cylinders and cones emitted for the section
Segments == {e \in section.emitted : e.kind \in {"cylinders", "cones"}}

\* the iterations that emitted a sphere, each with the segment it calls for:
\* none unless both radii are positive and the positions differ, a cylinder
\* for equal radii and a cone for unequal radii
SegmentCalledFor(e) ==
    IF \/ e.previousRadius <= 0
       \/ section.samples[e.i + 1].p = section.samples[e.previous + 1].p
    THEN {}
    ELSE IF e.radius = e.previousRadius THEN {"cylinders"} ELSE {"cones"}

\* C24: every cylinder or cone joins the current sample to the sample
\* processed before it, samples[i - step] is that sample and previousRadius
\* its radius, the last iteration included; a cylinder is emitted iff the
\* radii are equal and positive and the positions differ, a cone iff they
\* are positive and unequal.
C24_SegmentsJoinPreviousSample ==
    /\ \A e \in Segments :
          /\ e.before = e.previous
          /\ e.previousRadius =
                RadiusOf(section.radiusCorrection, section.samples[e.previous + 1].w)
          /\ e.radius > 0
    /\ \A e \in section.emitted :
          e.kind = "spheres" =>
             {o.kind : o \in {o \in Segments : o.i = e.i /\ o.previous = e.previous
                                                  /\ o.previousRadius = e.previousRadius}}
                = SegmentCalledFor(e)

\* C25: with a report, every cell that the pass over the non-simulated
\* cells builds is a cell that the report does not hold, built from its own
\* morphology and its own transform, and it was not built as a simulated
\* cell before.
C25_NonSimulatedPassLoadsOthers ==
    \A u \in used :
        u.pass = "nonsim" =>
            /\ u.uri \notin input.crGids
            /\ u.transform = u.uri
            /\ \A v \in used : v.pass = "main" => v.uri # u.uri

\* C26: with a report, the simulated cell built for loop index i is the i-th
\* cell of the report, found among the cells of the target, and its
\* transform, its compartment counts and offsets and, when neuron attributes
\* are read, its material are those of that cell.
C26_SimulatedCellDataOfOneGid ==
    op = "circuitReport" =>
        \A u \in used :
            u.pass = "main" =>
                /\ u.uri = EntryOf(input.crGids, u.i)
                /\ u.uri \in input.gids
                /\ u.transform = u.uri
                /\ u.compartments = u.uri
                /\ u.attribute \in {NoCell, u.uri}

====
